---- MODULE Spec2Model ----
(***************************************************************************)
(* Model of manimlib/animation/animation.py: the Animation base class      *)
(* (lifecycle begin / interpolate / finish / clean_up_from_scene /         *)
(* update_mobjects, the sub-alpha timing algorithm, the run-time getter)   *)
(* and prepare_animation.                                                  *)
(*                                                                         *)
(* Floats are modelled as exact rationals <<numerator, denominator>> in    *)
(* lowest terms with a positive denominator.  A rate function is an        *)
(* arbitrary callable; the value rate_func(t) is kept as the term          *)
(* [fn |-> name, at |-> t] (the named base curve evaluated at t), with the *)
(* squish wrappers added by begin() evaluated on the argument.             *)
(***************************************************************************)
EXTENDS Integers, Sequences, FiniteSets, TLC

VARIABLES
    run_time,                  \* self.run_time (rational)
    time_span,                 \* self.time_span: <<>> for None, else <<start, end>>
    rate_func,                 \* self.rate_func: [base, squish]
    remover,                   \* self.remover
    final_alpha_value,         \* self.final_alpha_value
    lag_ratio,                 \* self.lag_ratio
    suspend_mobject_updating,  \* self.suspend_mobject_updating
    mobject,                   \* self.mobject: the live target
    starting_mobject,          \* self.starting_mobject (attribute absent until begin)
    families,                  \* self.families (attribute absent until begin)
    scene,                     \* the mobjects of the scene
    call,                      \* the last call made by the driver and its outcome
    state,                     \* lifecycle position: Unstarted, Active, Finished
    pre,                       \* the target's flags and run_time before the latest begin()
    dropped                    \* the driver has abandoned the animation

vars == <<run_time, time_span, rate_func, remover, final_alpha_value, lag_ratio,
          suspend_mobject_updating, mobject, starting_mobject, families, scene,
          call, state, pre, dropped>>

config == <<time_span, remover, final_alpha_value, lag_ratio, suspend_mobject_updating>>

-----------------------------------------------------------------------------
(* Program constants *)

DEFAULT_ANIMATION_RUN_TIME == 1

DEFAULT_ANIMATION_LAG_RATIO == 0

\* CONFIG["final_alpha_value"]
DEFAULT_FINAL_ALPHA_VALUE == 1

-----------------------------------------------------------------------------
(* Bounds of the model *)

\* alphas passed by the driver are multiples of 1/AlphaDen
AlphaDen == 2

\* the target's family has 1..MaxFamily nodes
MaxFamily == 3

\* run_time and the time span's ends are whole seconds up to MaxTime
MaxTime == 2

\* lag ratios are multiples of 1/LagDen in [0, 1]
LagDen == 2

\* begin() wraps the rate function at most MaxSquish times
MaxSquish == 2

-----------------------------------------------------------------------------
(* Exact rational arithmetic standing for Python floats *)

RECURSIVE GCD(_, _)
GCD(a, b) == IF b = 0 THEN a ELSE GCD(b, a % b)

Abs(a) == IF a < 0 THEN -a ELSE a

Norm(n, d) ==
    LET s == IF d < 0 THEN -1 ELSE 1
        g == GCD(Abs(n), Abs(d))
    IN  <<(s * n) \div g, (s * d) \div g>>

Rat(n) == <<n, 1>>

RAdd(x, y) == Norm(x[1] * y[2] + y[1] * x[2], x[2] * y[2])

RSub(x, y) == Norm(x[1] * y[2] - y[1] * x[2], x[2] * y[2])

RMul(x, y) == Norm(x[1] * y[1], x[2] * y[2])

RDiv(x, y) == Norm(x[1] * y[2], x[2] * y[1])

RLess(x, y) == x[1] * y[2] < y[1] * x[2]

RLeq(x, y) == x[1] * y[2] <= y[1] * x[2]

RMax(x, y) == IF RLess(x, y) THEN y ELSE x

\* manimlib.utils.simple_functions.clip
clip(a, min_a, max_a) ==
    IF RLess(a, min_a) THEN min_a
    ELSE IF RLess(max_a, a) THEN max_a
    ELSE a

-----------------------------------------------------------------------------
(* Rate functions *)

\* manimlib.utils.rate_functions.squish_rate_func(func, a, b) evaluated at t:
\* the argument handed to func
squish_arg(t, a, b) == clip(RDiv(RSub(t, a), RSub(b, a)), Rat(0), Rat(1))

\* self.rate_func(t): the wrappers, outermost first, then the base curve
\* (each wrapper's result is bound as a value before the next one uses it)
RECURSIVE apply_rate_func(_, _)
apply_rate_func(rf, t) ==
    IF rf.squish = <<>>
    THEN [fn |-> rf.base, at |-> t]
    ELSE LET k == Len(rf.squish)
             w == rf.squish[k]
             inner == [rf EXCEPT !.squish = SubSeq(rf.squish, 1, k - 1)]
         IN  CHOOSE r \in { apply_rate_func(inner, v) :
                                v \in { squish_arg(t, w[1], w[2]) } } : TRUE

squish_rate_func(rf, a, b) == [rf EXCEPT !.squish = Append(rf.squish, <<a, b>>)]

-----------------------------------------------------------------------------
(* The collaborators: Mobject and Scene *)

\* Mobject.set_animating_status(is_animating)
set_animating_status(mob, is_animating) == [mob EXCEPT !.is_animating = is_animating]

\* Mobject.suspend_updating()
suspend_updating(mob) == [mob EXCEPT !.updating_suspended = TRUE]

\* Mobject.resume_updating()
resume_updating(mob) == [mob EXCEPT !.updating_suspended = FALSE]

\* Mobject.copy(): a deep, independent clone carrying the flags of the moment
mobject_copy(mob) == mob

\* Mobject.get_family(): the flattened nodes of the tree called `name`
get_family(name, mob) == [k \in 1..mob.n |-> <<name, k - 1>>]

\* Mobject.update(dt): whether it advances the mobject's own per-frame
\* auto-update logic; a suspended mobject is left as it is
mobject_update(mob) == ~mob.updating_suspended

\* Scene.remove(mobject)
scene_remove(sc, name) == sc \ {name}

\* an attribute that has not been assigned yet
NoAttr == [has |-> FALSE, mob |-> [is_animating |-> FALSE, updating_suspended |-> FALSE, n |-> 0]]

NoFamilies == [has |-> FALSE, val |-> <<>>]

NoError == [type |-> "none", about |-> "none"]

AttributeError(attr) == [type |-> "AttributeError", about |-> attr]

TypeError(text) == [type |-> "TypeError", about |-> text]

\* zip(a, b): pairs up to the shorter length
zip(a, b) ==
    LET m == IF Len(a) < Len(b) THEN Len(a) ELSE Len(b)
    IN  [k \in 1..m |-> <<a[k], b[k]>>]

-----------------------------------------------------------------------------
(* Animation: the timing algorithm *)

\* full_length counting every node instead of every gap between nodes
full_length_every_node(num_submobjects) ==
    RAdd(RMul(Rat(num_submobjects), lag_ratio), Rat(1))

\* full_length without the last node's own unit of time
full_length_no_unit(num_submobjects) ==
    RMul(Rat(num_submobjects - 1), lag_ratio)

\* line 165
full_length(num_submobjects) ==
    RAdd(RMul(Rat(num_submobjects - 1), lag_ratio), Rat(1))

\* lower without the lag ratio: each node offset by its whole index
lower_unscaled(index) == Rat(index)

\* lower counted backwards from the time axis' origin
lower_negated(index) == RSub(Rat(0), RMul(Rat(index), lag_ratio))

\* line 167
lower(index) == RMul(Rat(index), lag_ratio)

\* the raw sub-alpha measured from the node's start back to the stretched alpha
raw_sub_alpha_reversed(alpha, index, num_submobjects) ==
    clip(RSub(lower(index), RMul(alpha, full_length(num_submobjects))), Rat(0), Rat(1))

\* the raw sub-alpha without the clip
raw_sub_alpha_unclipped(alpha, index, num_submobjects) ==
    RSub(RMul(alpha, full_length(num_submobjects)), lower(index))

\* lines 166, 168
raw_sub_alpha(alpha, index, num_submobjects) ==
    clip(RSub(RMul(alpha, full_length(num_submobjects)), lower(index)), Rat(0), Rat(1))

\* Animation.get_sub_alpha, with self.rate_func as it stands at the call
get_sub_alpha(rf, alpha, index, num_submobjects) ==
    CHOOSE r \in { apply_rate_func(rf, raw) :
                     raw \in { raw_sub_alpha(alpha, index, num_submobjects) } } : TRUE

\* interpolate_mobject numbering the pairs from 1
interpolate_mobject_from_one(rf, fams, alpha) ==
    IF ~fams.has
    THEN [raised |-> AttributeError("families"), hooks |-> <<>>]
    ELSE [raised |-> NoError,
          hooks  |-> [k \in 1..Len(fams.val) |->
                        <<fams.val[k][1], fams.val[k][2],
                          get_sub_alpha(rf, alpha, k, Len(fams.val))>>]]

\* Animation.interpolate_mobject: one interpolate_submobject(live, starting,
\* sub_alpha) invocation per cached pair, in order; AttributeError when
\* self.families was never assigned
interpolate_mobject(rf, fams, alpha) ==
    IF ~fams.has
    THEN [raised |-> AttributeError("families"), hooks |-> <<>>]
    ELSE [raised |-> NoError,
          hooks  |-> [k \in 1..Len(fams.val) |->
                        <<fams.val[k][1], fams.val[k][2],
                          get_sub_alpha(rf, alpha, k - 1, Len(fams.val))>>]]

\* Animation.create_starting_mobject
create_starting_mobject(mob) == [has |-> TRUE, mob |-> mobject_copy(mob)]

\* get_all_families_zipped pairing the live family with itself
get_all_families_zipped_live(mob, start) ==
    zip(get_family("mobject", mob), get_family("mobject", mob))

\* Animation.get_all_families_zipped over get_all_mobjects()
get_all_families_zipped(mob, start) ==
    zip(get_family("mobject", mob), get_family("starting_mobject", start.mob))

\* get_all_mobjects_to_update without the filter
get_all_mobjects_to_update_unfiltered == <<"mobject", "starting_mobject">>

\* Animation.get_all_mobjects_to_update
get_all_mobjects_to_update ==
    SelectSeq(<<"mobject", "starting_mobject">>, LAMBDA m : m # "mobject")

\* Animation.is_remover
is_remover == remover

\* get_run_time ignoring the time span
get_run_time_field == run_time

\* Animation.get_run_time
get_run_time ==
    IF time_span # <<>> THEN RMax(run_time, time_span[2]) ELSE run_time

\* what begin() is about to overwrite: the target's flags and self.run_time
Pre(mob, rt) ==
    [is_animating |-> mob.is_animating, updating_suspended |-> mob.updating_suspended,
     run_time |-> rt]

\* the target's flags
Flags(mob) ==
    [is_animating |-> mob.is_animating, updating_suspended |-> mob.updating_suspended]

\* no hook ran
Unseen == [is_animating |-> FALSE, updating_suspended |-> FALSE]

\* the record of one call: its argument, what it raised, the per-node hook
\* invocations it made and the target's flags as they stood when the call
\* reached its interpolate, the calls it made on collaborators, what it
\* returned
Call(op, arg, raised, hooks, seen, ext, ret) ==
    [op |-> op, arg |-> arg, raised |-> raised, hooks |-> hooks, seen |-> seen,
     ext |-> ext, ret |-> ret]

-----------------------------------------------------------------------------
(* Animation: the operations *)

\* begin setting the animating flag after its interpolate(0)
begin_flag_last ==
    /\ time_span # <<>> => Len(rate_func.squish) < MaxSquish
    /\ LET rt == IF time_span # <<>> THEN RMax(time_span[2], run_time) ELSE run_time
           rf == IF time_span # <<>>
                 THEN squish_rate_func(rate_func, RDiv(time_span[1], rt),
                                       RDiv(time_span[2], rt))
                 ELSE rate_func
           sm == create_starting_mobject(mobject)
           m1 == IF suspend_mobject_updating THEN suspend_updating(mobject) ELSE mobject
           fams == [has |-> TRUE, val |-> get_all_families_zipped(m1, sm)]
           r  == interpolate_mobject(rf, fams, Rat(0))
           m2 == set_animating_status(m1, TRUE)
       IN  /\ run_time' = rt
           /\ rate_func' = rf
           /\ mobject' = m2
           /\ starting_mobject' = sm
           /\ families' = fams
           /\ call' = Call("begin", <<>>, r.raised, r.hooks, Flags(m1), <<>>, <<>>)
    /\ state' = "Active"
    /\ pre' = Pre(mobject, run_time)
    /\ UNCHANGED <<config, scene, dropped>>

\* begin taking the snapshot after it suspended the target
begin_copy_after_suspend ==
    /\ time_span # <<>> => Len(rate_func.squish) < MaxSquish
    /\ LET rt == IF time_span # <<>> THEN RMax(time_span[2], run_time) ELSE run_time
           rf == IF time_span # <<>>
                 THEN squish_rate_func(rate_func, RDiv(time_span[1], rt),
                                       RDiv(time_span[2], rt))
                 ELSE rate_func
           m1 == set_animating_status(mobject, TRUE)
           m2 == IF suspend_mobject_updating THEN suspend_updating(m1) ELSE m1
           sm == create_starting_mobject(m2)
           fams == [has |-> TRUE, val |-> get_all_families_zipped(m2, sm)]
           r  == interpolate_mobject(rf, fams, Rat(0))
       IN  /\ run_time' = rt
           /\ rate_func' = rf
           /\ mobject' = m2
           /\ starting_mobject' = sm
           /\ families' = fams
           /\ call' = Call("begin", <<>>, r.raised, r.hooks, Flags(m2), <<>>, <<>>)
    /\ state' = "Active"
    /\ pre' = Pre(mobject, run_time)
    /\ UNCHANGED <<config, scene, dropped>>

\* Animation.begin
begin ==
    /\ time_span # <<>> => Len(rate_func.squish) < MaxSquish
    /\ LET rt == IF time_span # <<>> THEN RMax(time_span[2], run_time) ELSE run_time
           rf == IF time_span # <<>>
                 THEN squish_rate_func(rate_func, RDiv(time_span[1], rt),
                                       RDiv(time_span[2], rt))
                 ELSE rate_func
           m1 == set_animating_status(mobject, TRUE)
           sm == create_starting_mobject(m1)
           m2 == IF suspend_mobject_updating THEN suspend_updating(m1) ELSE m1
           fams == [has |-> TRUE, val |-> get_all_families_zipped(m2, sm)]
           r  == interpolate_mobject(rf, fams, Rat(0))
       IN  /\ run_time' = rt
           /\ rate_func' = rf
           /\ mobject' = m2
           /\ starting_mobject' = sm
           /\ families' = fams
           /\ call' = Call("begin", <<>>, r.raised, r.hooks, Flags(m2), <<>>, <<>>)
    /\ state' = "Active"
    /\ pre' = Pre(mobject, run_time)
    /\ UNCHANGED <<config, scene, dropped>>

\* Animation.interpolate
interpolate(alpha) ==
    /\ LET r == interpolate_mobject(rate_func, families, alpha)
       IN  call' = Call("interpolate", <<alpha>>, r.raised, r.hooks, Flags(mobject),
                       <<>>, <<>>)
    /\ UNCHANGED <<config, run_time, rate_func, mobject, starting_mobject, families,
                   scene, state, pre, dropped>>

\* finish clearing the flags before its closing interpolate
finish_clear_first ==
    LET r == interpolate_mobject(rate_func, families, final_alpha_value)
        m1 == set_animating_status(mobject, FALSE)
        m2 == IF suspend_mobject_updating THEN resume_updating(m1) ELSE m1
    IN  /\ call' = Call("finish", <<>>, r.raised, r.hooks, Flags(m2), <<>>, <<>>)
        /\ mobject' = m2
        /\ state' = IF r.raised # NoError THEN state ELSE "Finished"
        /\ UNCHANGED <<config, run_time, rate_func, starting_mobject, families,
                       scene, pre, dropped>>

\* finish resuming the target's updates whatever suspend_mobject_updating says
finish_always_resume ==
    LET r == interpolate_mobject(rate_func, families, final_alpha_value)
    IN  /\ call' = Call("finish", <<>>, r.raised, r.hooks, Flags(mobject), <<>>, <<>>)
        /\ IF r.raised # NoError
           THEN UNCHANGED <<mobject, state>>
           ELSE /\ mobject' = resume_updating(set_animating_status(mobject, FALSE))
                /\ state' = "Finished"
        /\ UNCHANGED <<config, run_time, rate_func, starting_mobject, families,
                       scene, pre, dropped>>

\* Animation.finish
finish ==
    LET r == interpolate_mobject(rate_func, families, final_alpha_value)
    IN  /\ call' = Call("finish", <<>>, r.raised, r.hooks, Flags(mobject), <<>>, <<>>)
        /\ IF r.raised # NoError
           THEN UNCHANGED <<mobject, state>>
           ELSE /\ mobject' =
                     LET m1 == set_animating_status(mobject, FALSE)
                     IN  IF suspend_mobject_updating THEN resume_updating(m1) ELSE m1
                /\ state' = "Finished"
        /\ UNCHANGED <<config, run_time, rate_func, starting_mobject, families,
                       scene, pre, dropped>>

\* clean_up_from_scene removing the target whatever is_remover says
clean_up_from_scene_always ==
    /\ scene' = scene_remove(scene, "mobject")
    /\ call' = Call("clean_up_from_scene", <<>>, NoError, <<>>, Unseen,
                    << <<"scene.remove", "mobject">> >>, <<>>)
    /\ UNCHANGED <<config, run_time, rate_func, mobject, starting_mobject, families,
                   state, pre, dropped>>

\* Animation.clean_up_from_scene
clean_up_from_scene ==
    /\ IF is_remover
       THEN /\ scene' = scene_remove(scene, "mobject")
            /\ call' = Call("clean_up_from_scene", <<>>, NoError, <<>>, Unseen,
                            << <<"scene.remove", "mobject">> >>, <<>>)
       ELSE /\ scene' = scene
            /\ call' = Call("clean_up_from_scene", <<>>, NoError, <<>>, Unseen, <<>>,
                            <<>>)
    /\ UNCHANGED <<config, run_time, rate_func, mobject, starting_mobject, families,
                   state, pre, dropped>>

\* Animation.update_mobjects: mob.update(dt) on each mobject to update, in
\* order, each recorded with whether it advanced that mobject
update_mobjects(dt) ==
    /\ IF ~starting_mobject.has
       THEN call' = Call("update_mobjects", <<dt>>, AttributeError("starting_mobject"),
                         <<>>, Unseen, <<>>, <<>>)
       ELSE call' = Call("update_mobjects", <<dt>>, NoError, <<>>, Unseen,
                         [k \in 1..Len(get_all_mobjects_to_update) |->
                            LET name == get_all_mobjects_to_update[k]
                                mob  == IF name = "mobject" THEN mobject
                                        ELSE starting_mobject.mob
                            IN  <<"update", name, dt, mobject_update(mob)>>], <<>>)
    /\ UNCHANGED <<config, run_time, rate_func, mobject, starting_mobject, families,
                   scene, state, pre, dropped>>

-----------------------------------------------------------------------------
(* prepare_animation *)

\* the values handed to prepare_animation: each with the classes it is an
\* instance of and its str()
AnimLike ==
    { [mro |-> {"Animation"}, str |-> "self"],
      [mro |-> {"Transform", "Animation"}, str |-> "transform"],
      [mro |-> {"_AnimationBuilder"}, str |-> "builder"],
      [mro |-> {"int"}, str |-> "3"] }

isinstance(x, cls) == cls \in x.mro

\* _AnimationBuilder.build(): the animation the builder describes
build(x) == [mro |-> {"Animation"}, str |-> "built"]

\* prepare_animation passing every non-builder through
prepare_animation_no_raise(anim) ==
    IF isinstance(anim, "_AnimationBuilder")
    THEN [raised |-> NoError, ret |-> <<build(anim)>>, ext |-> << <<"build", anim.str>> >>]
    ELSE [raised |-> NoError, ret |-> <<anim>>, ext |-> <<>>]

\* prepare_animation: what it raises, returns and calls
prepare_animation(anim) ==
    IF isinstance(anim, "_AnimationBuilder")
    THEN [raised |-> NoError, ret |-> <<build(anim)>>, ext |-> << <<"build", anim.str>> >>]
    ELSE IF isinstance(anim, "Animation")
    THEN [raised |-> NoError, ret |-> <<anim>>, ext |-> <<>>]
    ELSE [raised |-> TypeError(<<"Object ", anim.str, " cannot be converted to an animation">>),
          ret |-> <<>>, ext |-> <<>>]

\* the scene normalises an animation-like value before it begins anything
PrepareAnimation(x) ==
    /\ ~families.has
    /\ LET r == prepare_animation(x)
       IN  call' = Call("prepare_animation", <<x>>, r.raised, <<>>, Unseen, r.ext, r.ret)
    /\ UNCHANGED <<config, run_time, rate_func, mobject, starting_mobject, families,
                   scene, state, pre, dropped>>

-----------------------------------------------------------------------------
(* The driver *)

\* the alphas the driver passes: the grid on [0, 1] and one step outside each end
Alphas == { Norm(k, AlphaDen) : k \in (-1)..(AlphaDen + 1) }

\* the lag ratios: the grid on [0, 1] and one step above 1
LagRatios == { Norm(k, LagDen) : k \in 0..(LagDen + 1) }

TimeSpans ==
    {<<>>} \cup { <<Rat(s), Rat(e)>> : s \in 0..MaxTime, e \in 1..MaxTime }

\* the run times: the default and the longest
RunTimes == { Rat(DEFAULT_ANIMATION_RUN_TIME), Rat(MaxTime) }

RateFuncs == {"smooth", "linear"}

\* the default and one value outside [0, 1]
FinalAlphas == { Rat(DEFAULT_FINAL_ALPHA_VALUE), Rat(2) }

\* the frame durations the driver passes to update_mobjects
Dts == { Rat(0), <<1, AlphaDen>> }

\* the driver stops calling the animation while it is Active; the class has
\* no destructor and no abort path, so nothing else runs
Drop ==
    /\ state = "Active"
    /\ dropped' = TRUE
    /\ call' = Call("drop", <<>>, NoError, <<>>, Unseen, <<>>, <<>>)
    /\ UNCHANGED <<config, run_time, rate_func, mobject, starting_mobject, families,
                   scene, state, pre>>

\* what every construction shares: nothing begun, the target in the scene
Constructed ==
    /\ mobject.n \in 1..MaxFamily
    /\ starting_mobject = NoAttr
    /\ families = NoFamilies
    /\ scene = {"mobject", "other"}
    /\ call = Call("none", <<>>, NoError, <<>>, Unseen, <<>>, <<>>)
    /\ state = "Unstarted"
    /\ pre = Pre(mobject, run_time)
    /\ dropped = FALSE

\* Animation.__init__ with every value of the flags (remover,
\* suspend_mobject_updating, the target's own flags) and of final_alpha_value,
\* with or without a time span, and the CONFIG defaults for run_time,
\* rate_func and lag_ratio
Init ==
    /\ run_time = Rat(DEFAULT_ANIMATION_RUN_TIME)
    /\ time_span \in { <<>>, <<Rat(0), Rat(MaxTime)>> }
    /\ rate_func = [base |-> "smooth", squish |-> <<>>]
    /\ lag_ratio = Rat(DEFAULT_ANIMATION_LAG_RATIO)
    /\ final_alpha_value \in FinalAlphas
    /\ remover \in BOOLEAN
    /\ suspend_mobject_updating \in BOOLEAN
    /\ mobject \in [is_animating : BOOLEAN, updating_suspended : BOOLEAN, n : 1..MaxFamily]
    /\ Constructed

\* Animation.__init__ with every value of the timing parameters (run_time,
\* time_span, rate_func, lag_ratio) and the CONFIG defaults for the flags and
\* final_alpha_value, on a target that is neither animating nor suspended
InitTiming ==
    /\ run_time \in RunTimes
    /\ time_span \in { ts \in TimeSpans : ts # <<>> => RLess(ts[1], ts[2]) }
    /\ rate_func \in { [base |-> b, squish |-> <<>>] : b \in RateFuncs }
    /\ lag_ratio \in LagRatios
    /\ final_alpha_value = Rat(DEFAULT_FINAL_ALPHA_VALUE)
    /\ remover = FALSE
    /\ suspend_mobject_updating = TRUE
    /\ mobject \in [is_animating : {FALSE}, updating_suspended : {FALSE}, n : 1..MaxFamily]
    /\ Constructed

\* Animation.__init__ with every final_alpha_value, inside [0, 1] and on
\* either side of it, every lag ratio, with or without a time span, and the
\* CONFIG defaults for the rest
InitFinal ==
    /\ run_time = Rat(DEFAULT_ANIMATION_RUN_TIME)
    /\ time_span \in { <<>>, <<Rat(1), Rat(MaxTime)>> }
    /\ rate_func = [base |-> "smooth", squish |-> <<>>]
    /\ lag_ratio \in LagRatios
    /\ final_alpha_value \in FinalAlphas \cup { Rat(-1) }
    /\ remover = FALSE
    /\ suspend_mobject_updating = TRUE
    /\ mobject \in [is_animating : {FALSE}, updating_suspended : {FALSE}, n : 1..MaxFamily]
    /\ Constructed

Next ==
    /\ ~dropped
    /\ \/ begin
       \/ \E alpha \in Alphas : interpolate(alpha)
       \/ finish
       \/ clean_up_from_scene
       \/ \E dt \in Dts : update_mobjects(dt)
       \/ \E x \in AnimLike : PrepareAnimation(x)
       \/ Drop

Spec == Init /\ [][Next]_vars

SpecTiming == InitTiming /\ [][Next]_vars

SpecFinal == InitFinal /\ [][Next]_vars

-----------------------------------------------------------------------------
(* Properties *)

InUnit(x) == RLeq(Rat(0), x) /\ RLeq(x, Rat(1))

SubAlphas(hooks) == [k \in 1..Len(hooks) |-> hooks[k][3]]

\* C1: after begin() the target is animating and, if suspend_mobject_updating,
\* suspended; after the finish() that follows, the animating flag and the
\* suspended flag have the values they had before begin(), whatever those were.
C1_FlagsReverted ==
    /\ (call.op = "begin" =>
          /\ mobject.is_animating
          /\ (suspend_mobject_updating => mobject.updating_suspended))
    /\ (call.op = "finish" /\ call.raised = NoError =>
          /\ mobject.is_animating = pre.is_animating
          /\ mobject.updating_suspended = pre.updating_suspended)

\* C2: clean_up_from_scene asks the scene to remove the target exactly when
\* is_remover() holds, in every lifecycle state and without raising; after it
\* the scene lacks the target iff is_remover(), and a further call changes
\* nothing.
C2_AfterCleanUp ==
    call.op = "clean_up_from_scene" =>
        /\ call.raised = NoError
        /\ call.ext = IF is_remover THEN << <<"scene.remove", "mobject">> >> ELSE <<>>
        /\ scene = IF is_remover THEN {"other"} ELSE {"mobject", "other"}

C2_CleanUp ==
    /\ []C2_AfterCleanUp
    /\ [][call.op = "clean_up_from_scene" /\ call'.op = "clean_up_from_scene"
            => scene' = scene]_vars

C2_Witness ==
    /\ call.op = "clean_up_from_scene"
    /\ state = "Unstarted"
    /\ is_remover
    /\ "mobject" \notin scene

\* C3: the lifecycle never moves back: a Finished animation stays Finished, an
\* Active one never becomes Unstarted, and begin() on an Active or Finished
\* animation takes no new snapshot, does not touch the target and does not
\* wrap the rate function again.
C3_NoWayBack ==
    [][/\ (state = "Finished" => state' = "Finished")
       /\ (state = "Active" => state' # "Unstarted")
       /\ (state # "Unstarted" /\ begin =>
             UNCHANGED <<rate_func, starting_mobject, mobject>>)]_vars

\* C4: a suspension taken by begin() on an animation that is then dropped
\* while Active is eventually released: once the dropped animation has come
\* to rest (no further step is possible), the target is no longer suspended.
C4_SuspensionReleased ==
    (/\ dropped
     /\ suspend_mobject_updating
     /\ ~pre.updating_suspended
     /\ ~ENABLED Next) => ~mobject.updating_suspended

\* C5: interpolate(alpha) and finish() before any begin() raise, invoke no
\* hook, and leave the target's animating and suspended flags as they were.
C5_BeforeBegin ==
    (state = "Unstarted" /\ call.op \in {"interpolate", "finish"}) =>
        /\ call.raised.type = "AttributeError"
        /\ call.hooks = <<>>
        /\ mobject.is_animating = pre.is_animating
        /\ mobject.updating_suspended = pre.updating_suspended

C5_Witness ==
    /\ state = "Unstarted"
    /\ call.op = "finish"
    /\ call.raised # NoError
    /\ suspend_mobject_updating
    /\ mobject.is_animating
    /\ mobject.updating_suspended

\* C6: prepare_animation(x) returns x.build() for a builder, x itself for an
\* Animation, and for anything else raises a TypeError naming x, calling no
\* build() and returning nothing.
C6_Prepare ==
    call.op = "prepare_animation" =>
        LET x == call.arg[1]
        IN  IF "_AnimationBuilder" \in x.mro
            THEN /\ call.raised = NoError
                 /\ call.ret = <<build(x)>>
                 /\ call.ext = << <<"build", x.str>> >>
            ELSE IF "Animation" \in x.mro
            THEN /\ call.raised = NoError
                 /\ call.ret = <<x>>
                 /\ call.ext = <<>>
            ELSE /\ call.raised.type = "TypeError"
                 /\ call.raised.about[2] = x.str
                 /\ call.ret = <<>>
                 /\ call.ext = <<>>

C6_Witness ==
    /\ call.op = "prepare_animation"
    /\ call.raised.type = "TypeError"
    /\ call.arg[1].mro = {"int"}

\* C7: with a time span (s, e) and run_time widened by begin(), interpolate at
\* an alpha in [0, 1] whose time alpha * run_time is before s gives every node
\* the sub-alpha it gets at time s, and at a time after e the sub-alpha it
\* gets at time e.
C7_TimeSpanClamp ==
    (/\ call.op = "interpolate"
     /\ call.raised = NoError
     /\ time_span # <<>>
     /\ Len(rate_func.squish) = 1
     /\ InUnit(lag_ratio)
     /\ InUnit(call.arg[1])) =>
        LET t == RMul(call.arg[1], run_time)
            at(time) == interpolate_mobject(rate_func, families,
                                            RDiv(time, run_time)).hooks
        IN  /\ (RLess(t, time_span[1]) => call.hooks = at(time_span[1]))
            /\ (RLess(time_span[2], t) => call.hooks = at(time_span[2]))

\* C8: get_run_time() is max(run_time, time_span end) with a time span and
\* run_time without; begin() never decreases run_time, widens it to at least
\* the time span's end, leaves get_run_time() as it was, and makes it equal
\* to the run_time field.
C8_RunTime ==
    /\ [](get_run_time =
            IF time_span = <<>> THEN run_time
            ELSE IF RLess(run_time, time_span[2]) THEN time_span[2]
            ELSE run_time)
    /\ [][begin =>
            /\ get_run_time' = get_run_time
            /\ run_time' = get_run_time'
            /\ RLeq(run_time, run_time')
            /\ (time_span # <<>> => RLeq(time_span[2], run_time'))]_vars

C8_Witness ==
    /\ call.op = "begin"
    /\ time_span # <<>>
    /\ RLess(pre.run_time, time_span[2])
    /\ run_time = time_span[2]

\* C9: with lag_ratio = 0 every node of the family gets rate_func(alpha) at
\* interpolate(alpha), for alpha in [0, 1].
C9_LagZero ==
    (/\ call.op = "interpolate"
     /\ call.raised = NoError
     /\ lag_ratio = Rat(0)
     /\ InUnit(call.arg[1])) =>
        /\ Len(call.hooks) = mobject.n
        /\ \A k \in 1..Len(call.hooks) :
              call.hooks[k][3] = apply_rate_func(rate_func, call.arg[1])

C9_Witness ==
    /\ call.op = "interpolate"
    /\ call.raised = NoError
    /\ lag_ratio = Rat(0)
    /\ call.arg[1] = <<1, 2>>
    /\ Len(call.hooks) >= 2

\* C10: a family of one node gets rate_func(clamp(alpha, 0, 1)) at
\* interpolate(alpha), for every lag ratio and every alpha, also outside [0, 1].
C10_SingleNode ==
    (/\ call.op = "interpolate"
     /\ call.raised = NoError
     /\ Len(families.val) = 1) =>
        SubAlphas(call.hooks) =
            <<apply_rate_func(rate_func, clip(call.arg[1], Rat(0), Rat(1)))>>

C10_Witness ==
    /\ call.op = "interpolate"
    /\ call.raised = NoError
    /\ Len(families.val) = 1
    /\ RLess(Rat(1), call.arg[1])
    /\ RLess(Rat(0), lag_ratio)

\* the alpha a call hands to interpolate_mobject
AlphaOf(c) ==
    IF c.op = "interpolate" THEN c.arg[1]
    ELSE IF c.op = "begin" THEN Rat(0)
    ELSE final_alpha_value

\* the raw sub-alphas of the cached pairs at alpha, in pair order
RawSubAlphas(alpha) ==
    [k \in 1..Len(families.val) |-> raw_sub_alpha(alpha, k - 1, Len(families.val))]

\* C11: for a lag ratio in [0, 1], interpolate(1) hands every node the sub-alpha
\* rate_func(1); when the lag ratio is positive, interpolate(0) hands every
\* node, the first one and the later ones, the sub-alpha rate_func(0).
C11_Boundary ==
    (call.op = "interpolate" /\ call.raised = NoError /\ InUnit(lag_ratio)) =>
        /\ Len(call.hooks) = mobject.n
        /\ (call.arg[1] = Rat(1) =>
              \A k \in 1..Len(call.hooks) :
                  call.hooks[k][3] = apply_rate_func(rate_func, Rat(1)))
        /\ (call.arg[1] = Rat(0) /\ RLess(Rat(0), lag_ratio) =>
              \A k \in 1..Len(call.hooks) :
                  call.hooks[k][3] = apply_rate_func(rate_func, Rat(0)))

C11_Witness ==
    /\ call.op = "interpolate" /\ call.raised = NoError
    /\ call.arg[1] = Rat(1)
    /\ lag_ratio = <<1, 2>>
    /\ Len(call.hooks) = 3

\* C12: for a lag ratio in [0, 1], when an interpolate call follows an
\* interpolate call with an alpha that is not smaller, no node's raw sub-alpha
\* is smaller than it was; without a time span the hooks receive the rate
\* function applied to exactly these raw sub-alphas.
C12_Monotone ==
    /\ [](call.op = "interpolate" /\ call.raised = NoError /\ rate_func.squish = <<>> =>
            \A k \in 1..Len(call.hooks) :
                call.hooks[k][3].at = RawSubAlphas(call.arg[1])[k])
    /\ [][(/\ call.op = "interpolate" /\ call.raised = NoError
           /\ call'.op = "interpolate" /\ call'.raised = NoError
           /\ InUnit(lag_ratio)
           /\ RLeq(call.arg[1], call'.arg[1])) =>
             \A k \in 1..Len(families.val) :
                 RLeq(RawSubAlphas(call.arg[1])[k], RawSubAlphas(call'.arg[1])[k])]_vars

C12_Witness ==
    /\ call.op = "interpolate" /\ call.raised = NoError
    /\ call.arg[1] = <<1, 2>>
    /\ lag_ratio = <<1, 2>>
    /\ RawSubAlphas(call.arg[1]) = << Rat(1), <<1, 2>>, Rat(0) >>

\* C13: with three cached pairs, lag ratio 1/2 and the identity rate function,
\* interpolate(alpha) invokes the hook once per pair in the order 0, 1, 2 with
\* (live node i, starting node i, sub-alpha i); the sub-alphas are (0, 0, 0) at
\* alpha 0, (1, 1/2, 0) at alpha 1/2 and (1, 1, 1) at alpha 1.
C13_Staggered ==
    (/\ call.op = "interpolate" /\ call.raised = NoError
     /\ Len(families.val) = 3 /\ lag_ratio = <<1, 2>>
     /\ rate_func = [base |-> "linear", squish |-> <<>>]) =>
        LET expected(a, b, c) ==
                << << <<"mobject", 0>>, <<"starting_mobject", 0>>,
                      [fn |-> "linear", at |-> a] >>,
                   << <<"mobject", 1>>, <<"starting_mobject", 1>>,
                      [fn |-> "linear", at |-> b] >>,
                   << <<"mobject", 2>>, <<"starting_mobject", 2>>,
                      [fn |-> "linear", at |-> c] >> >>
        IN  /\ (call.arg[1] = Rat(0) => call.hooks = expected(Rat(0), Rat(0), Rat(0)))
            /\ (call.arg[1] = <<1, 2>> => call.hooks = expected(Rat(1), <<1, 2>>, Rat(0)))
            /\ (call.arg[1] = Rat(1) => call.hooks = expected(Rat(1), Rat(1), Rat(1)))

C13_Witness ==
    /\ call.op = "interpolate" /\ call.raised = NoError
    /\ Len(call.hooks) = 3 /\ lag_ratio = <<1, 2>>
    /\ rate_func = [base |-> "linear", squish |-> <<>>]
    /\ call.arg[1] = <<1, 2>>
    /\ call.hooks[2][3] = [fn |-> "linear", at |-> <<1, 2>>]

\* C14: once begin() has run, update_mobjects(dt) calls update(dt) exactly once
\* on the starting snapshot and never on the live target, in every lifecycle
\* state and however often it is called; it leaves the cached pairing and the
\* target's animating and suspended flags as they were.
C14_AfterUpdate ==
    (call.op = "update_mobjects" /\ starting_mobject.has) =>
        /\ call.raised = NoError
        /\ \A k \in 1..Len(call.ext) :
              call.ext[k][1] = "update" /\ call.ext[k][3] = call.arg[1]
        /\ \A name \in {"mobject", "starting_mobject"} :
              Cardinality({ k \in 1..Len(call.ext) : call.ext[k][2] = name })
                = IF name = "mobject" THEN 0 ELSE 1

C14_UpdateMobjects ==
    /\ []C14_AfterUpdate
    /\ [][(\E dt \in Dts : update_mobjects(dt)) =>
             UNCHANGED <<families, mobject>>]_vars

C14_Witness ==
    /\ call.op = "update_mobjects" /\ call.raised = NoError
    /\ state = "Finished"
    /\ call.arg[1] = <<1, AlphaDen>>
    /\ call.ext[1][2] = "starting_mobject"

\* C15: the pairing begin() caches has as many live nodes as starting nodes,
\* at least one pair, pairs live node i with starting node i, and is the same
\* after every interpolate, update_mobjects and finish that follows.
C15_PairingShape ==
    families.has =>
        /\ Len(families.val) = mobject.n
        /\ Len(families.val) = starting_mobject.mob.n
        /\ Len(families.val) >= 1
        /\ \A k \in 1..Len(families.val) :
              families.val[k] = << <<"mobject", k - 1>>, <<"starting_mobject", k - 1>> >>

C15_Pairing ==
    /\ []C15_PairingShape
    /\ [][(families.has /\ call'.op \in {"interpolate", "update_mobjects", "finish"}) =>
             families' = families]_vars

C15_Witness ==
    /\ state = "Finished" /\ call.op = "finish" /\ call.raised = NoError
    /\ Len(families.val) = 3
    /\ families.val[3] = << <<"mobject", 2>>, <<"starting_mobject", 2>> >>

\* C16: while the animation is Active after a begin() that suspended a target
\* whose updates were active, the starting snapshot is not suspended and the
\* live target is, and update_mobjects(dt) advances the snapshot.
C16_SnapshotUpdates ==
    (state = "Active" /\ suspend_mobject_updating /\ ~pre.updating_suspended) =>
        /\ starting_mobject.has
        /\ ~starting_mobject.mob.updating_suspended
        /\ mobject.updating_suspended
        /\ (call.op = "update_mobjects" =>
              call.ext = << <<"update", "starting_mobject", call.arg[1], TRUE>> >>)

C16_Witness ==
    /\ state = "Active" /\ suspend_mobject_updating /\ ~pre.updating_suspended
    /\ call.op = "update_mobjects"
    /\ call.ext[1][4]
    /\ mobject.updating_suspended

\* C17: begin() reaches its interpolate(0) with the animating flag set, the
\* snapshot taken, the target suspended if so configured and the pairing
\* cached; finish() on an Active animation reaches
\* interpolate(final_alpha_value) with the animating flag still set and clears
\* it afterwards. So every hook of a playback sees the animating flag true and
\* the hooks of finish() carry the sub-alphas of final_alpha_value.
C17_HooksSeeAnimating ==
    (state = "Active" /\ call.op \in {"begin", "interpolate"}) =>
        /\ call.raised = NoError
        /\ call.hooks # <<>>
        /\ call.seen.is_animating

C17_Order ==
    /\ []C17_HooksSeeAnimating
    /\ [][begin =>
             /\ call'.seen.is_animating
             /\ (suspend_mobject_updating => call'.seen.updating_suspended)
             /\ starting_mobject'.has /\ families'.has
             /\ call'.raised = NoError
             /\ call'.hooks = interpolate_mobject(rate_func', families', Rat(0)).hooks]_vars
    /\ [][(state = "Active" /\ finish) =>
             /\ call'.seen.is_animating
             /\ ~mobject'.is_animating
             /\ call'.hooks # <<>>
             /\ call'.hooks =
                  interpolate_mobject(rate_func, families, final_alpha_value).hooks]_vars

C17_Witness ==
    /\ state = "Finished" /\ call.op = "finish" /\ call.raised = NoError
    /\ call.seen.is_animating /\ ~mobject.is_animating
    /\ final_alpha_value = Rat(2)
    /\ Len(call.hooks) = 2
    /\ call.hooks[2][3] = apply_rate_func(rate_func, Rat(1))

\* C18: at one alpha and for a lag ratio in [0, 1], an earlier node's raw
\* sub-alpha is never below a later node's; with lag ratio 1 and two nodes or
\* more, a node's raw sub-alpha is 0 unless its predecessor's is 1, so at most
\* one node is strictly between 0 and 1.
C18_Ordered ==
    (call.op = "interpolate" /\ call.raised = NoError /\ InUnit(lag_ratio)) =>
        LET raw == RawSubAlphas(call.arg[1])
            n   == Len(families.val)
        IN  /\ \A i \in 1..n : \A j \in 1..n : i < j => RLeq(raw[j], raw[i])
            /\ (lag_ratio = Rat(1) /\ n >= 2 =>
                  /\ \A k \in 1..(n - 1) : raw[k + 1] = Rat(0) \/ raw[k] = Rat(1)
                  /\ Cardinality({ k \in 1..n : /\ RLess(Rat(0), raw[k])
                                                /\ RLess(raw[k], Rat(1)) }) <= 1)

C18_Witness ==
    /\ call.op = "interpolate" /\ call.raised = NoError
    /\ lag_ratio = Rat(1)
    /\ call.arg[1] = <<1, 2>>
    /\ RawSubAlphas(call.arg[1]) = << Rat(1), <<1, 2>>, Rat(0) >>

\* C19: when suspend_mobject_updating is false, no begin, interpolate,
\* update_mobjects or finish changes the target's updating-suspended flag.
C19_SuspendedUntouched ==
    /\ [](~suspend_mobject_updating =>
            mobject.updating_suspended = pre.updating_suspended)
    /\ [][~suspend_mobject_updating =>
             mobject'.updating_suspended = mobject.updating_suspended]_vars

C19_Witness ==
    /\ ~suspend_mobject_updating
    /\ state = "Finished" /\ call.op = "finish" /\ call.raised = NoError
    /\ mobject.updating_suspended

\* C20: whatever the alpha (begin's 0, the driver's, also outside [0, 1], or
\* final_alpha_value), the lag ratio >= 0, the number of nodes and the index,
\* get_sub_alpha hands self.rate_func an argument in [0, 1], and the base
\* curve is evaluated in [0, 1].
C20_RateFuncDomain ==
    (call.op \in {"begin", "interpolate", "finish"} /\ call.raised = NoError) =>
        /\ Len(call.hooks) = Len(families.val)
        /\ \A k \in 1..Len(call.hooks) :
              /\ InUnit(RawSubAlphas(AlphaOf(call))[k])
              /\ call.hooks[k][3] =
                    apply_rate_func(rate_func, RawSubAlphas(AlphaOf(call))[k])
              /\ InUnit(call.hooks[k][3].at)

C20_Witness ==
    /\ call.op = "finish" /\ call.raised = NoError
    /\ final_alpha_value = Rat(-1)
    /\ lag_ratio = <<3, 2>>
    /\ rate_func.squish = <<>>
    /\ Len(call.hooks) = 3
    /\ call.hooks[3][3].at = Rat(0)

====
